---- MODULE Spec2Model ----
(***************************************************************************)
(* Model of track_github (app/src/main.py): the /update handler that       *)
(* rebuilds the github_events table from the fetched feeds, and the        *)
(* /statistics handler that aggregates the table per repository.          *)
(*                                                                         *)
(* Time is counted in whole seconds.  Averages are held in thousandths of  *)
(* the configured unit (round(x, 3) keeps three decimals), so the value    *)
(* 1.5 of the code is the integer 1500 here.                               *)
(***************************************************************************)
EXTENDS Bags, FiniteSets, Integers, Sequences, TLC

VARIABLES
    repositories,   \* config.get('repositories'): sequence of [owner, repo]
    delta,          \* config.get('delta'): "second" | "minute" | "hour"
    deleteLimit,    \* does the server's DELETE grammar accept a trailing LIMIT
    now,            \* the value datetime.now() returns
    tableExists,    \* the relation github_events exists
    table,          \* its rows, a bag of [owner, repo, event_timestamp, type]
    txFailed,       \* the connection's transaction is in the failed state
    pc,             \* position of the /update handler
    current_count,  \* local of update_data
    i,              \* index of the repository of the outer loop
    pos,            \* number of events of the current feed already looped over
    event,          \* loop variable of the inner loop (last event taken)
    response,       \* what the last finished handler returned to its caller
    fetchedFresh,   \* history: timestamps of this cycle's events of age <= F
    newestFirst,    \* history: every feed of this cycle came newest first
    ascending,      \* history: this cycle's events were all fresh and strictly ascending
    aggIn,          \* aggregator harness: the ordered input
    aggDone,        \* aggregator harness: calculate_average_time has returned
    aggOut,         \* aggregator harness: its result
    aggFp,          \* aggregator harness: side the floats of this input fall on
    aggTwice,       \* aggregator harness: it was applied a second time
    aggOut2,        \* aggregator harness: the result of the second application
    phase,          \* "loading" | "serving" | "exited": the module-level code
    cpc,            \* concurrent handlers: position of each /update request
    ccount,         \* concurrent handlers: current_count of each request
    ci,             \* concurrent handlers: repository index of each request
    cpos,           \* concurrent handlers: events looped over in the feed
    cresp,          \* concurrent handlers: what each request answered
    seen            \* concurrent handlers: what the last /statistics read met

vars == <<repositories, delta, deleteLimit, now, tableExists, table, txFailed,
          pc, current_count, i, pos, event, response,
          fetchedFresh, newestFirst, ascending, aggIn, aggDone, aggOut,
          aggFp, aggTwice, aggOut2, phase, cpc, ccount, ci, cpos, cresp, seen>>

cfgVars  == <<repositories, delta, deleteLimit>>
aggVars  == <<aggIn, aggDone, aggOut, aggFp, aggTwice, aggOut2>>
concVars == <<cpc, ccount, ci, cpos, cresp, seen>>
\* the locals of the handler of the sequential server
seqVars  == <<pc, current_count, i, pos, event, response>>
histVars == <<fetchedFresh, newestFirst, ascending>>

----------------------------------------------------------------------------
(* Bounds of the model *)

\* capacity of the table; main.py line 240 uses 500
Capacity == 2
\* longest feed one fetch returns
MaxFeedLen == 2
\* how many times the clock advances by one day
MaxTicks == 1
\* longest input of the aggregator harness
MaxAggLen == 4

(* Program constants *)

FreshDays == 7
Day == 86400
Hour == 3600
Minute == 60
MaxRepositories == 5

Now0 == 10 * Day

Types == {"PushEvent", "WatchEvent"}
Units == {"second", "minute", "hour"}

\* timestamps of the rows handed to the aggregator harness
AggTimes == {0, 1, 2, 9, 18, 60, 120, 3600}

\* ages (at Now0) of the events a feed may carry: three fresh ones and one
\* between seven and eight days, which is past eight days once the clock
\* has moved on
FeedAges == {1 * Hour, 3 * Hour, 5 * Hour, 7 * Day + 12 * Hour}
FeedEvents == [created_at : {Now0 - a : a \in FeedAges}, type : Types]

R1 == [owner |-> "o1", repo |-> "r1"]
R2 == [owner |-> "o2", repo |-> "r2"]
R3 == [owner |-> "o2", repo |-> "r1"]
\* the configuration files tried: one repository, two with different names,
\* two owners of the same repository name
Configs == { [repositories |-> <<R1>>,     delta |-> "second"],
             [repositories |-> <<R1, R2>>, delta |-> "hour"],
             [repositories |-> <<R1, R3>>, delta |-> "minute"] }

\* the /update requests that may be in flight together
Procs == {1, 2}

\* no /statistics read has happened
NoRead == [read |-> FALSE, during |-> FALSE, exists |-> TRUE]

NoEvent == [created_at |-> 0, type |-> "none"]
NoResponse == [handler |-> "none", ok |-> TRUE, body |-> <<>>]

----------------------------------------------------------------------------
(* Helpers on bags of rows *)

RowsOf(t) == BagToSet(t)

Size(t) == BagCardinality(t)

MinTimestamp(t) ==
    CHOOSE m \in {r.event_timestamp : r \in RowsOf(t)} :
        \A r \in RowsOf(t) : m <= r.event_timestamp


----------------------------------------------------------------------------
(* update_data: the statements of the handler *)

Row(repository, event_datetime, typ) ==
    [owner |-> repository.owner, repo |-> repository.repo,
     event_timestamp |-> event_datetime, type |-> typ]

\* datetime.strptime(event['created_at'], ...): the instant the text denotes
ParseCreatedAt(e) == e.created_at

\* timedelta.days of (datetime.now() - event_datetime): whole days, rounded down
AgeDays(clock, event_datetime) == (clock - event_datetime) \div Day

\* line 236: if time_difference.days > 7: continue
TooOld(clock, event_datetime) == AgeDays(clock, event_datetime) > FreshDays

\* a comparison that lets one row too many in
AtCapacity_Strict(count) == count > Capacity

\* line 240: if current_count >= 500
AtCapacity(count) == count >= Capacity

\* the statement without its LIMIT 1: every row of the smallest timestamp goes
DeleteOldest_AllTies(t) ==
    IF t = EmptyBag
    THEN {t}
    ELSE {[r \in {x \in RowsOf(t) : x.event_timestamp # MinTimestamp(t)} |->
              CopiesIn(r, t)]}

\* lines 242-248 on a server whose DELETE takes LIMIT: the tables that can
\* result from deleting one row whose event_timestamp is the smallest
DeleteOldest(t) ==
    IF t = EmptyBag
    THEN {t}
    ELSE {t (-) SetToBag({r}) :
            r \in {x \in RowsOf(t) : x.event_timestamp = MinTimestamp(t)}}

\* lines 253-256: INSERT INTO github_events ... VALUES (...)
InsertRow(t, row) == t (+) SetToBag({row})

\* an unhandled exception leaves the handler: the caller gets an error
Raise(handler) == [handler |-> handler, ok |-> FALSE, body |-> <<>>]

Returned(handler, body) == [handler |-> handler, ok |-> TRUE, body |-> body]

\* lines 222-223: DROP TABLE github_events; commit.  The statement fails when
\* the transaction is already in the failed state or the table is absent;
\* nothing rolls the failed transaction back.
Drop ==
    /\ pc = "idle"
    /\ IF txFailed \/ ~tableExists
       THEN /\ response' = Raise("update")
            /\ txFailed' = TRUE
            /\ UNCHANGED <<tableExists, table, pc, current_count, i, pos,
                           event, histVars>>
       ELSE /\ tableExists' = FALSE
            /\ table' = EmptyBag
            /\ pc' = "create"
            /\ response' = NoResponse
            /\ UNCHANGED <<txFailed, current_count, i, pos, event, histVars>>
    /\ UNCHANGED <<cfgVars, phase, concVars, now, aggVars>>

\* lines 224-227 and 261-274: create_events_table(); current_count = 0
Create ==
    /\ pc = "create"
    /\ tableExists' = TRUE
    /\ table' = (IF tableExists THEN table ELSE EmptyBag)
    /\ current_count' = 0
    /\ i' = 1
    /\ pos' = 0
    /\ event' = NoEvent
    /\ fetchedFresh' = EmptyBag
    /\ newestFirst' = TRUE
    /\ ascending' = TRUE
    /\ pc' = "fetch"
    /\ UNCHANGED <<cfgVars, phase, concVars, now, txFailed, response, aggVars>>

\* the exception swallowed: the handler answers as if all had gone well
FetchFail_Swallowed ==
    /\ pc = "fetch"
    /\ i <= Len(repositories)
    /\ response' = Returned("update", "Data were updated.")
    /\ pc' = "idle"
    /\ UNCHANGED <<cfgVars, phase, concVars, now, tableExists, table, txFailed, current_count,
                   i, pos, event, histVars, aggVars>>

\* the failing repository skipped, the cycle going on with the next one
FetchFail_SkipAndContinue ==
    /\ pc = "fetch"
    /\ i <= Len(repositories)
    /\ i' = i + 1
    /\ UNCHANGED <<cfgVars, phase, concVars, now, tableExists, table, txFailed,
                   current_count, pc, pos, event, response, histVars, aggVars>>

\* lines 229-230 and 121-128: get_github_events raises; the exception leaves
\* update_data
FetchFail ==
    /\ pc = "fetch"
    /\ i <= Len(repositories)
    /\ response' = Raise("update")
    /\ pc' = "idle"
    /\ UNCHANGED <<cfgVars, phase, concVars, now, tableExists, table, txFailed, current_count,
                   i, pos, event, histVars, aggVars>>

\* lines 229-231: get_github_events returns the feed of repository i.  The
\* events of the feed are drawn one by one as the inner loop reaches them.
FetchOk ==
    /\ pc = "fetch"
    /\ i <= Len(repositories)
    /\ pos' = 0
    /\ pc' = "events"
    /\ UNCHANGED <<cfgVars, phase, concVars, now, tableExists, table, txFailed, current_count,
                   i, event, response, histVars, aggVars>>

\* the history of the cycle, extended by the event e
Observe(e) ==
    LET ts == ParseCreatedAt(e) IN
    /\ fetchedFresh' = (IF now - ts <= FreshDays * Day
                        THEN fetchedFresh (+) SetToBag({ts})
                        ELSE fetchedFresh)
    /\ newestFirst' = (newestFirst /\ (pos = 0 \/ ts <= event.created_at))
    /\ ascending' = (/\ ascending
                     /\ now - ts <= FreshDays * Day
                     /\ (event = NoEvent \/ ts > event.created_at))

\* lines 232-257: one pass of the inner loop, for the event e
ProcessEvent(e) ==
    /\ pc = "events"
    /\ pos < MaxFeedLen
    /\ event' = e
    /\ pos' = pos + 1
    /\ Observe(e)
    /\ LET event_datetime == ParseCreatedAt(e)
           row == Row(repositories[i], event_datetime, e.type)
       IN IF TooOld(now, event_datetime)
          THEN \* continue
               UNCHANGED <<table, current_count, txFailed, pc, response>>
          ELSE IF AtCapacity(current_count)
               THEN IF deleteLimit
                    THEN \* DELETE one oldest row, count - 1, INSERT, count + 1
                         /\ \E t \in DeleteOldest(table) :
                                table' = InsertRow(t, row)
                         /\ current_count' = (current_count - 1) + 1
                         /\ UNCHANGED <<txFailed, pc, response>>
                    ELSE \* the server rejects DELETE ... LIMIT 1: the
                         \* syntax error leaves the handler
                         /\ txFailed' = TRUE
                         /\ response' = Raise("update")
                         /\ pc' = "idle"
                         /\ UNCHANGED <<table, current_count>>
               ELSE /\ table' = InsertRow(table, row)
                    /\ current_count' = current_count + 1
                    /\ UNCHANGED <<txFailed, pc, response>>
    /\ UNCHANGED <<cfgVars, phase, concVars, now, tableExists, i, aggVars>>

\* the inner loop is over: next repository
EndFeed ==
    /\ pc = "events"
    /\ i' = i + 1
    /\ pc' = "fetch"
    /\ UNCHANGED <<cfgVars, phase, concVars, now, tableExists, table, txFailed, current_count,
                   pos, event, response, histVars, aggVars>>

\* line 258: return "Data were updated."
Return ==
    /\ pc = "fetch"
    /\ i > Len(repositories)
    /\ response' = Returned("update", "Data were updated.")
    /\ pc' = "idle"
    /\ UNCHANGED <<cfgVars, phase, concVars, now, tableExists, table, txFailed, current_count,
                   i, pos, event, histVars, aggVars>>

\* the clock moves on by a day
Tick ==
    /\ now < Now0 + MaxTicks * Day
    /\ now' = now + Day
    /\ UNCHANGED <<cfgVars, phase, concVars, tableExists, table, txFailed, pc, current_count,
                   i, pos, event, response, histVars, aggVars>>

----------------------------------------------------------------------------
(* calculate_average_time and the /statistics handler *)

\* seconds in one unit of date_transform_to (lines 44-49)
UnitSeconds(unit) ==
    CASE unit = "second" -> 1
      [] unit = "minute" -> Minute
      [] unit = "hour"   -> Hour

\* date_transform_to(date, delta): the quotient seconds / unit, kept as the
\* pair <<numerator, denominator>>
date_transform_to(seconds, unit) == <<seconds, UnitSeconds(unit)>>

\* round(x, 3) of x = num / den, in thousandths.  Exactly half-way between
\* two thousandths the binary float lies on either side: `up' says on which.
Round3(num, den, up) ==
    LET scaled == 1000 * num
        q == scaled \div den
        r == scaled % den
    IN  IF 2 * r < den THEN q
        ELSE IF 2 * r > den THEN q + 1
        ELSE IF up THEN q + 1 ELSE q

\* the dates of all events, whatever their type
RECURSIVE TimesOfType_AnyType(_, _)
TimesOfType_AnyType(events, typ) ==
    IF events = <<>> THEN <<>>
    ELSE <<Head(events).event_timestamp>> \o TimesOfType_AnyType(Tail(events), typ)

\* line 148 and lines 150-152: the dates of the events of one type, in the
\* order of the input
RECURSIVE TimesOfType(_, _)
TimesOfType(events, typ) ==
    IF events = <<>> THEN <<>>
    ELSE LET rest == TimesOfType(Tail(events), typ)
         IN  IF Head(events).type = typ
             THEN <<Head(events).event_timestamp>> \o rest
             ELSE rest

\* line 159: deltas, and line 160: the sum of their numerators
RECURSIVE SumOfDeltas(_)
SumOfDeltas(times) ==
    IF Len(times) < 2 THEN 0
    ELSE (times[2] - times[1]) + SumOfDeltas(Tail(times))

\* lines 156-162: the average of one type
AverageOf(times, unit, up) ==
    IF Len(times) < 2
    THEN 0
    ELSE LET sum_of_deltas == date_transform_to(SumOfDeltas(times), unit)
         IN  Round3(sum_of_deltas[1], sum_of_deltas[2] * (Len(times) - 1), up)

\* an empty dictionary in place of None
calculate_average_time_EmptyDict(events, unit, fp) ==
    [none |-> FALSE,
     dict |-> [typ \in {events[k].type : k \in 1..Len(events)} |->
                 AverageOf(TimesOfType(events, typ), unit, fp[typ])]]

\* calculate_average_time(events): [none |-> TRUE] is None, otherwise the
\* dictionary from type to average.  fp[typ] is the side the float of that
\* type's average falls on at a half-way point.
calculate_average_time(events, unit, fp) ==
    IF events = <<>>
    THEN [none |-> TRUE, dict |-> <<>>]
    ELSE [none |-> FALSE,
          dict |-> [typ \in {events[k].type : k \in 1..Len(events)} |->
                      AverageOf(TimesOfType(events, typ), unit, fp[typ])]]

\* lines 179-183: the answers SELECT ... WHERE owner, repo ORDER BY
\* event_timestamp ASC may give: every ascending listing of the matching rows
Matching(t, owner, repo) ==
    {r \in RowsOf(t) : r.owner = owner /\ r.repo = repo}

\* ORDER BY event_timestamp DESC
SelectOrdered_Descending(t, owner, repo) ==
    LET m == Matching(t, owner, repo)
        n == IF m = {} THEN 0
             ELSE BagCardinality([r \in m |-> CopiesIn(r, t)])
    IN  {s \in [1..n -> m] :
            /\ \A r \in m : Cardinality({k \in 1..n : s[k] = r}) = CopiesIn(r, t)
            /\ \A k \in 1..(n - 1) :
                   s[k].event_timestamp >= s[k + 1].event_timestamp}

SelectOrdered(t, owner, repo) ==
    LET m == Matching(t, owner, repo)
        n == IF m = {} THEN 0
             ELSE BagCardinality([r \in m |-> CopiesIn(r, t)])
    IN  {s \in [1..n -> m] :
            /\ \A r \in m : Cardinality({k \in 1..n : s[k] = r}) = CopiesIn(r, t)
            /\ \A k \in 1..(n - 1) :
                   s[k].event_timestamp <= s[k + 1].event_timestamp}

\* cur.fetchall(): one of these listings
fetchall(t, owner, repo) == CHOOSE s \in SelectOrdered(t, owner, repo) : TRUE

\* get_db_statistics(owner, repo)
get_db_statistics(t, owner, repo, unit, fp) ==
    calculate_average_time(fetchall(t, owner, repo), unit, fp)

\* whichever listing the server gives, the statistics are the same
ListingIrrelevant ==
    \A k \in 1..Len(repositories) : \A fp \in [Types -> BOOLEAN] :
        \A s \in SelectOrdered(table, repositories[k].owner, repositories[k].repo) :
            calculate_average_time(s, delta, fp) =
                get_db_statistics(table, repositories[k].owner,
                                  repositories[k].repo, delta, fp)

\* lines 204-209: one pass of the loop of get_api_statistics over result
StoreStatistics(result, repo, statistics) ==
    IF statistics.none \/ statistics.dict = <<>>
    THEN (repo :> <<>>) @@ result
    ELSE LET old == IF repo \in DOMAIN result THEN result[repo] ELSE <<>>
         IN  (repo :> (statistics.dict @@ old)) @@ result

\* lines 197-211: result after the first k repositories
RECURSIVE ApiStatistics(_, _, _, _, _)
ApiStatistics(repos, k, t, unit, fp) ==
    IF k = 0 THEN <<>>
    ELSE StoreStatistics(ApiStatistics(repos, k - 1, t, unit, fp),
                         repos[k].repo,
                         get_db_statistics(t, repos[k].owner, repos[k].repo,
                                           unit, fp))

get_api_statistics(repos, t, unit, fp) ==
    ApiStatistics(repos, Len(repos), t, unit, fp)

\* a handler that first deletes the rows that have grown too old
Statistics_Expiring ==
    /\ pc = "idle"
    /\ IF txFailed \/ ~tableExists
       THEN /\ response' = Raise("statistics")
            /\ txFailed' = TRUE
            /\ UNCHANGED table
       ELSE /\ table' = [r \in {x \in RowsOf(table) :
                                    ~TooOld(now, x.event_timestamp)} |->
                            CopiesIn(r, table)]
            /\ \E fp \in [Types -> BOOLEAN] :
                  response' = Returned("statistics",
                      get_api_statistics(repositories, table', delta, fp))
            /\ UNCHANGED txFailed
    /\ UNCHANGED <<cfgVars, phase, concVars, now, tableExists, pc, current_count,
                   i, pos, event, histVars, aggVars>>

\* the /statistics handler, run between two update cycles; the SELECT fails
\* when the transaction is in the failed state or the table is absent
Statistics ==
    /\ pc = "idle"
    /\ IF txFailed \/ ~tableExists
       THEN /\ response' = Raise("statistics")
            /\ txFailed' = TRUE
       ELSE /\ \E fp \in [Types -> BOOLEAN] :
                  response' = Returned("statistics",
                      get_api_statistics(repositories, table, delta, fp))
            /\ UNCHANGED txFailed
    /\ UNCHANGED <<cfgVars, phase, concVars, now, tableExists, table, pc, current_count, i,
                   pos, event, histVars, aggVars>>

----------------------------------------------------------------------------
(* The server: configuration loaded, table created by the main block *)

Init ==
    /\ \E config \in Configs :
           /\ repositories = config.repositories
           /\ delta = config.delta
    /\ deleteLimit \in BOOLEAN
    /\ now = Now0
    /\ tableExists = TRUE
    /\ table = EmptyBag
    /\ txFailed = FALSE
    /\ pc = "idle"
    /\ current_count = 0
    /\ i = 1
    /\ pos = 0
    /\ event = NoEvent
    /\ response = NoResponse
    /\ fetchedFresh = EmptyBag
    /\ newestFirst = TRUE
    /\ ascending = TRUE
    /\ aggIn = <<>>
    /\ aggDone = FALSE
    /\ aggOut = [none |-> TRUE, dict |-> <<>>]
    /\ aggFp = [typ \in Types |-> FALSE]
    /\ aggTwice = FALSE
    /\ aggOut2 = [none |-> TRUE, dict |-> <<>>]
    /\ phase = "serving"
    /\ cpc = [p \in Procs |-> "idle"]
    /\ ccount = [p \in Procs |-> 0]
    /\ ci = [p \in Procs |-> 1]
    /\ cpos = [p \in Procs |-> 0]
    /\ cresp = [p \in Procs |-> "none"]
    /\ seen = NoRead

Next ==
    \/ Drop
    \/ Create
    \/ FetchFail
    \/ FetchOk
    \/ \E e \in FeedEvents : ProcessEvent(e)
    \/ EndFeed
    \/ Return
    \/ Statistics
    \/ Tick

Spec == Init /\ [][Next]_vars

TypeOK ==
    /\ Len(repositories) <= MaxRepositories
    /\ pc \in {"idle", "create", "fetch", "events"}
    /\ current_count \in 0..Capacity
    /\ pos \in 0..MaxFeedLen

----------------------------------------------------------------------------
(* The aggregator on its own: calculate_average_time applied to an ordered  *)
(* listing of rows of one repository, as get_db_statistics hands it over    *)

AggRows == [owner : {"o1"}, repo : {"r1"}, event_timestamp : AggTimes, type : Types]

IsAscending(s) ==
    \A k \in 1..(Len(s) - 1) : s[k].event_timestamp <= s[k + 1].event_timestamp

AggInputs ==
    UNION {{s \in [1..n -> AggRows] : IsAscending(s)} : n \in 0..MaxAggLen}

\* the first application; the side the floats of this input fall on at a
\* half-way point is a property of the input, kept for a second application
Aggregate ==
    /\ ~aggDone
    /\ \E fp \in [Types -> BOOLEAN] :
           /\ aggOut' = calculate_average_time(aggIn, delta, fp)
           /\ aggFp' = fp
    /\ aggDone' = TRUE
    /\ UNCHANGED <<cfgVars, phase, concVars, now, tableExists, table, txFailed,
                   seqVars, histVars, aggIn, aggTwice, aggOut2>>

\* the list is consumed by the call
AggregateAgain_Consuming ==
    /\ aggDone /\ ~aggTwice
    /\ aggOut2' = calculate_average_time(aggIn, delta, aggFp)
    /\ aggIn' = <<>>
    /\ aggTwice' = TRUE
    /\ UNCHANGED <<cfgVars, phase, concVars, now, tableExists, table, txFailed,
                   seqVars, histVars, aggDone, aggOut, aggFp>>

\* calculate_average_time applied once more to the same list: lines 144-164
\* read events and config, and write locals only
AggregateAgain ==
    /\ aggDone /\ ~aggTwice
    /\ aggOut2' = calculate_average_time(aggIn, delta, aggFp)
    /\ aggTwice' = TRUE
    /\ UNCHANGED <<cfgVars, phase, concVars, now, tableExists, table, txFailed,
                   seqVars, histVars, aggIn, aggDone, aggOut, aggFp>>

InitAgg ==
    /\ repositories = <<R1>>
    /\ delta \in Units
    /\ deleteLimit = FALSE
    /\ now = Now0
    /\ tableExists = TRUE
    /\ table = EmptyBag
    /\ txFailed = FALSE
    /\ pc = "idle"
    /\ current_count = 0
    /\ i = 1
    /\ pos = 0
    /\ event = NoEvent
    /\ response = NoResponse
    /\ fetchedFresh = EmptyBag
    /\ newestFirst = TRUE
    /\ ascending = TRUE
    /\ aggIn \in AggInputs
    /\ aggDone = FALSE
    /\ aggOut = [none |-> TRUE, dict |-> <<>>]
    /\ aggFp = [typ \in Types |-> FALSE]
    /\ aggTwice = FALSE
    /\ aggOut2 = [none |-> TRUE, dict |-> <<>>]
    /\ phase = "serving"
    /\ cpc = [p \in Procs |-> "idle"]
    /\ ccount = [p \in Procs |-> 0]
    /\ ci = [p \in Procs |-> 1]
    /\ cpos = [p \in Procs |-> 0]
    /\ cresp = [p \in Procs |-> "none"]
    /\ seen = NoRead

NextAgg == Aggregate \/ AggregateAgain

SpecAgg == InitAgg /\ [][NextAgg]_vars

-----------------------------------------------------------------------------
(* Start of the process: the configuration is loaded and checked before    *)
(* the server accepts a request.  The feeds are empty here: the cycles     *)
(* walk over the repositories without storing anything.                    *)

MaxConfigLen == 6

\* the lists the configuration file may hold
StartConfigs == UNION {[1..n -> {R1, R2}] : n \in 0..MaxConfigLen}

\* a check that lets one repository too many through
Startup_OffByOne ==
    /\ phase = "loading"
    /\ IF Len(repositories) > MaxRepositories + 1
       THEN /\ phase' = "exited"
            /\ UNCHANGED tableExists
       ELSE /\ phase' = "serving"
            /\ tableExists' = TRUE
    /\ UNCHANGED <<cfgVars, concVars, now, table, txFailed, seqVars, histVars,
                   aggVars>>

\* lines 99-103: sys.exit(1) on more than five repositories; otherwise
\* lines 277-279: the table is created and the server started
Startup ==
    /\ phase = "loading"
    /\ IF Len(repositories) > MaxRepositories
       THEN /\ phase' = "exited"
            /\ UNCHANGED tableExists
       ELSE /\ phase' = "serving"
            /\ tableExists' = TRUE
    /\ UNCHANGED <<cfgVars, concVars, now, table, txFailed, seqVars, histVars,
                   aggVars>>

InitStart ==
    /\ repositories \in StartConfigs
    /\ delta = "second"
    /\ deleteLimit = FALSE
    /\ now = Now0
    /\ tableExists = FALSE
    /\ table = EmptyBag
    /\ txFailed = FALSE
    /\ pc = "idle"
    /\ current_count = 0
    /\ i = 1
    /\ pos = 0
    /\ event = NoEvent
    /\ response = NoResponse
    /\ fetchedFresh = EmptyBag
    /\ newestFirst = TRUE
    /\ ascending = TRUE
    /\ aggIn = <<>>
    /\ aggDone = FALSE
    /\ aggOut = [none |-> TRUE, dict |-> <<>>]
    /\ aggFp = [typ \in Types |-> FALSE]
    /\ aggTwice = FALSE
    /\ aggOut2 = [none |-> TRUE, dict |-> <<>>]
    /\ phase = "loading"
    /\ cpc = [p \in Procs |-> "idle"]
    /\ ccount = [p \in Procs |-> 0]
    /\ ci = [p \in Procs |-> 1]
    /\ cpos = [p \in Procs |-> 0]
    /\ cresp = [p \in Procs |-> "none"]
    /\ seen = NoRead

\* the handlers run only in a process that got past the check
Serving(handler) == phase = "serving" /\ handler

NextStart ==
    \/ Startup
    \/ Serving(Drop)
    \/ Serving(Create)
    \/ Serving(FetchFail)
    \/ Serving(FetchOk)
    \/ Serving(EndFeed)
    \/ Serving(Return)
    \/ Serving(Statistics)

SpecStart == InitStart /\ [][NextStart]_vars

-----------------------------------------------------------------------------
(* Requests served together.  app.run serves each request on a thread of   *)
(* its own; update_data and get_api_statistics take no lock, and all of    *)
(* them use the one connection and cursor of lines 95-97.  A step is one   *)
(* execute with the commit that follows it.  cpc, ccount, ci and cpos are  *)
(* the position and the locals of each /update request in flight.          *)

\* the events the feeds deliver here: two pushes inside the window
ConcEvents ==
    {e \in FeedEvents : e.type = "PushEvent" /\ e.created_at >= Now0 - 3 * Hour}

\* the exception leaves the handler of request p
CRaise(p) ==
    /\ cpc' = [cpc EXCEPT ![p] = "idle"]
    /\ cresp' = [cresp EXCEPT ![p] = "failed"]

\* lines 222-223 in request p
CDrop(p) ==
    /\ cpc[p] = "idle"
    /\ IF txFailed \/ ~tableExists
       THEN /\ CRaise(p)
            /\ txFailed' = TRUE
            /\ UNCHANGED <<tableExists, table>>
       ELSE /\ tableExists' = FALSE
            /\ table' = EmptyBag
            /\ cpc' = [cpc EXCEPT ![p] = "create"]
            /\ cresp' = [cresp EXCEPT ![p] = "none"]
            /\ UNCHANGED txFailed
    /\ UNCHANGED <<cfgVars, phase, now, seqVars, histVars, aggVars,
                   ccount, ci, cpos, seen>>

\* lines 224-227 and 261-274 in request p: CREATE TABLE IF NOT EXISTS keeps
\* a table that another request has created in the meantime
CCreate(p) ==
    /\ cpc[p] = "create"
    /\ IF txFailed
       THEN /\ CRaise(p)
            /\ UNCHANGED <<tableExists, ccount, ci, cpos>>
       ELSE /\ tableExists' = TRUE
            /\ ccount' = [ccount EXCEPT ![p] = 0]
            /\ ci' = [ci EXCEPT ![p] = 1]
            /\ cpos' = [cpos EXCEPT ![p] = 0]
            /\ cpc' = [cpc EXCEPT ![p] = "fetch"]
            /\ UNCHANGED cresp
    /\ UNCHANGED <<cfgVars, phase, now, table, txFailed, seqVars, histVars,
                   aggVars, seen>>

\* lines 229-230 in request p, the fetch raising
CFetchFail(p) ==
    /\ cpc[p] = "fetch"
    /\ ci[p] <= Len(repositories)
    /\ CRaise(p)
    /\ UNCHANGED <<cfgVars, phase, now, tableExists, table, txFailed, seqVars,
                   histVars, aggVars, ccount, ci, cpos, seen>>

\* lines 229-231 in request p
CFetchOk(p) ==
    /\ cpc[p] = "fetch"
    /\ ci[p] <= Len(repositories)
    /\ cpc' = [cpc EXCEPT ![p] = "events"]
    /\ cpos' = [cpos EXCEPT ![p] = 0]
    /\ UNCHANGED <<cfgVars, phase, now, tableExists, table, txFailed, seqVars,
                   histVars, aggVars, ccount, ci, cresp, seen>>

\* lines 233-257 in request p, for the next event e of the feed
CProcessEvent(p, e) ==
    /\ cpc[p] = "events"
    /\ cpos[p] < MaxFeedLen
    /\ cpos' = [cpos EXCEPT ![p] = cpos[p] + 1]
    /\ LET event_datetime == ParseCreatedAt(e)
           row == Row(repositories[ci[p]], event_datetime, e.type)
       IN  IF TooOld(now, event_datetime)
           THEN UNCHANGED <<table, txFailed, ccount, cpc, cresp>>
           ELSE IF AtCapacity(ccount[p])
                THEN IF deleteLimit /\ ~txFailed /\ tableExists
                     THEN /\ \E t \in DeleteOldest(table) :
                                 table' = InsertRow(t, row)
                          /\ ccount' = [ccount EXCEPT ![p] = (ccount[p] - 1) + 1]
                          /\ UNCHANGED <<txFailed, cpc, cresp>>
                     ELSE /\ txFailed' = TRUE
                          /\ CRaise(p)
                          /\ UNCHANGED <<table, ccount>>
                ELSE IF txFailed \/ ~tableExists
                     THEN \* INSERT into a table another request has dropped
                          /\ txFailed' = TRUE
                          /\ CRaise(p)
                          /\ UNCHANGED <<table, ccount>>
                     ELSE /\ table' = InsertRow(table, row)
                          /\ ccount' = [ccount EXCEPT ![p] = ccount[p] + 1]
                          /\ UNCHANGED <<txFailed, cpc, cresp>>
    /\ UNCHANGED <<cfgVars, phase, now, tableExists, seqVars, histVars, aggVars,
                   ci, seen>>

\* the inner loop of request p is over
CEndFeed(p) ==
    /\ cpc[p] = "events"
    /\ ci' = [ci EXCEPT ![p] = ci[p] + 1]
    /\ cpc' = [cpc EXCEPT ![p] = "fetch"]
    /\ UNCHANGED <<cfgVars, phase, now, tableExists, table, txFailed, seqVars,
                   histVars, aggVars, ccount, cpos, cresp, seen>>

\* line 258 in request p
CReturn(p) ==
    /\ cpc[p] = "fetch"
    /\ ci[p] > Len(repositories)
    /\ cpc' = [cpc EXCEPT ![p] = "idle"]
    /\ cresp' = [cresp EXCEPT ![p] = "ok"]
    /\ UNCHANGED <<cfgVars, phase, now, tableExists, table, txFailed, seqVars,
                   histVars, aggVars, ccount, ci, cpos, seen>>

\* a request somewhere between its DROP and the end of its handler
InCycle(p) == cpc[p] \in {"create", "fetch", "events"}

\* lines 179-183: the SELECT of a /statistics request, at whatever point the
\* /update requests have reached; seen is what the statement met
CQuery ==
    /\ IF txFailed
       THEN UNCHANGED <<txFailed, seen>>
       ELSE /\ seen' = [read |-> TRUE,
                        during |-> \E p \in Procs : InCycle(p),
                        exists |-> tableExists]
            /\ txFailed' = ~tableExists
    /\ UNCHANGED <<cfgVars, phase, now, tableExists, table, seqVars, histVars,
                   aggVars, cpc, ccount, ci, cpos, cresp>>

InitConc ==
    /\ repositories = <<R1>>
    /\ delta = "second"
    /\ deleteLimit = FALSE
    /\ now = Now0
    /\ tableExists = TRUE
    /\ table = EmptyBag
    /\ txFailed = FALSE
    /\ pc = "idle"
    /\ current_count = 0
    /\ i = 1
    /\ pos = 0
    /\ event = NoEvent
    /\ response = NoResponse
    /\ fetchedFresh = EmptyBag
    /\ newestFirst = TRUE
    /\ ascending = TRUE
    /\ aggIn = <<>>
    /\ aggDone = FALSE
    /\ aggOut = [none |-> TRUE, dict |-> <<>>]
    /\ aggFp = [typ \in Types |-> FALSE]
    /\ aggTwice = FALSE
    /\ aggOut2 = [none |-> TRUE, dict |-> <<>>]
    /\ phase = "serving"
    /\ cpc = [p \in Procs |-> "idle"]
    /\ ccount = [p \in Procs |-> 0]
    /\ ci = [p \in Procs |-> 1]
    /\ cpos = [p \in Procs |-> 0]
    /\ cresp = [p \in Procs |-> "none"]
    /\ seen = NoRead

NextConc ==
    \/ \E p \in Procs :
          \/ CDrop(p)
          \/ CCreate(p)
          \/ CFetchFail(p)
          \/ CFetchOk(p)
          \/ \E e \in ConcEvents : CProcessEvent(p, e)
          \/ CEndFeed(p)
          \/ CReturn(p)
    \/ CQuery

SpecConc == InitConc /\ [][NextConc]_vars

----------------------------------------------------------------------------
(* Vocabulary of the properties *)

F == FreshDays * Day

\* the step of update_data that loops over one more event
EventStep == pc = "events" /\ pos' = pos + 1

\* the update handler has returned or raised, and nothing ran since
CycleOver == pc = "idle" /\ response.handler = "update"

CycleSucceeded == CycleOver /\ response.ok

\* the timestamps of the rows of a table, as a bag
RECURSIVE TimestampsOf(_, _)
TimestampsOf(S, t) ==
    IF S = {} THEN EmptyBag
    ELSE LET r == CHOOSE x \in S : TRUE
         IN  (r.event_timestamp :> CopiesIn(r, t)) (+) TimestampsOf(S \ {r}, t)

Timestamps(t) == TimestampsOf(RowsOf(t), t)

\* the k largest members of a bag of timestamps
RECURSIVE Latest(_, _)
Latest(b, k) ==
    IF BagCardinality(b) <= k THEN b
    ELSE LET m == CHOOSE x \in BagToSet(b) : \A y \in BagToSet(b) : x <= y
         IN  Latest(b (-) SetToBag({m}), k)

----------------------------------------------------------------------------
(* C1: the table never holds more than Capacity rows, whatever the feeds,   *)
(* counted over all repositories together.                                  *)
C1_SizeAtMostCapacity == tableExists => Size(table) <= Capacity

\* the table is full and one more event that passed the age test has come
C1_Witness ==
    /\ Size(table) = Capacity
    /\ BagCardinality(fetchedFresh) > Capacity
    /\ event # NoEvent /\ ~TooOld(now, event.created_at)

(* C2: an event whose age exceeds seven days leaves the table and the       *)
(* counter as they were.                                                    *)
C2_OlderThanWindowIsDropped ==
    [][(EventStep /\ now - event'.created_at > F)
         => (table' = table /\ current_count' = current_count)]_vars

(* C3: an event that passed the age test and meets a full table is          *)
(* inserted after exactly one row was removed, a row of the smallest        *)
(* timestamp of the whole table.                                            *)
C3_EvictOneOldestThenInsert ==
    [][(EventStep /\ ~TooOld(now, event'.created_at) /\ Size(table) = Capacity)
         => \E victim \in RowsOf(table) :
               /\ victim.event_timestamp = MinTimestamp(table)
               /\ table' = (table (-) SetToBag({victim}))
                             (+) SetToBag({Row(repositories[i],
                                               event'.created_at, event'.type)})]_vars

(* C4: after a cycle that returned normally, with every feed newest first,  *)
(* the table holds exactly the min(Capacity, n) latest of the n fresh       *)
(* events fetched.                                                          *)
C4_HoldsLatestFetched ==
    (CycleSucceeded /\ newestFirst)
        => Timestamps(table) = Latest(fetchedFresh, Capacity)

(* C5: more than Capacity fresh events of strictly increasing timestamps,   *)
(* handed over in ascending order to an empty table, leave the Capacity     *)
(* latest of them in the table.                                             *)
C5_AscendingKeepsLatest ==
    (CycleOver /\ ascending /\ BagCardinality(fetchedFresh) > Capacity)
        => Timestamps(table) = Latest(fetchedFresh, Capacity)

(* C6: when the fetch of a repository fails, update_data raises (no success *)
(* message) and the rows inserted so far stay in the table.                 *)
C6_FetchFailureKeepsRows ==
    [][(pc = "fetch" /\ i <= Len(repositories) /\ pc' = "idle")
         => /\ response'.handler = "update" /\ ~response'.ok
            /\ table' = table /\ tableExists' = tableExists]_vars

\* the fetch of the second repository failed with rows of the first in place
C6_Witness ==
    /\ CycleOver /\ ~response.ok /\ ~txFailed
    /\ i = 2
    /\ table # EmptyBag
    /\ \A r \in RowsOf(table) :
           r.owner = repositories[1].owner /\ r.repo = repositories[1].repo

(* C7: the statistics handler succeeds between cycles, its result has an    *)
(* entry for every configured repository, and a repository without rows    *)
(* maps to the empty mapping.                                               *)
C7_StatisticsTotal ==
    response.handler = "statistics"
        => /\ response.ok
           /\ \A k \in 1..Len(repositories) :
                 /\ repositories[k].repo \in DOMAIN response.body
                 /\ Matching(table, repositories[k].owner, repositories[k].repo) = {}
                       => response.body[repositories[k].repo] = <<>>

(* C8: what the statistics report for a tracked (owner, repo) pair is what  *)
(* the aggregator computes from the rows of that pair alone.                *)
C8_StatisticsPerPair ==
    (response.handler = "statistics" /\ response.ok)
        => \A k \in 1..Len(repositories) :
              \E fp \in [Types -> BOOLEAN] :
                 /\ repositories[k].repo \in DOMAIN response.body
                 /\ response.body[repositories[k].repo] =
                       get_db_statistics(table, repositories[k].owner,
                                         repositories[k].repo, delta, fp).dict

(* C9: the aggregator returns None on the empty input; otherwise a mapping  *)
(* whose keys are the types present, with 0 for a type that occurs once.    *)
C9_NoneAndSingletons ==
    aggDone
        => /\ aggIn = <<>> => aggOut.none
           /\ aggIn # <<>>
                => /\ ~aggOut.none
                   /\ DOMAIN aggOut.dict = {aggIn[k].type : k \in 1..Len(aggIn)}
                   /\ \A typ \in DOMAIN aggOut.dict :
                          Cardinality({k \in 1..Len(aggIn) : aggIn[k].type = typ}) = 1
                              => aggOut.dict[typ] = 0

\* an input with a type that occurs once next to a type that occurs twice
C9_Witness ==
    /\ aggDone /\ ~aggOut.none
    /\ DOMAIN aggOut.dict = Types
    /\ \E typ \in Types :
          /\ Cardinality({k \in 1..Len(aggIn) : aggIn[k].type = typ}) = 1
          /\ aggOut.dict[typ] = 0
    /\ \E typ \in Types : aggOut.dict[typ] > 0

\* the rows of one type are n >= 2 events, d seconds apart
OfType(typ) == {k \in 1..Len(aggIn) : aggIn[k].type = typ}

EvenlySpaced(typ, d) ==
    /\ Cardinality(OfType(typ)) >= 2
    /\ \A k, l \in OfType(typ) :
          (k < l /\ ~\E m \in OfType(typ) : k < m /\ m < l)
             => aggIn[l].event_timestamp - aggIn[k].event_timestamp = d

\* the distances between two events of one type of the input
Spacings(typ) ==
    {aggIn[l].event_timestamp - aggIn[k].event_timestamp : k, l \in OfType(typ)}

(* C10 as claimed: for events of one type a fixed d apart the average is d  *)
(* expressed in the unit, exactly.                                          *)
C10_AverageIsExactlyD ==
    aggDone
        => \A typ \in Types : \A d \in Spacings(typ) :
              EvenlySpaced(typ, d)
                 => aggOut.dict[typ] * UnitSeconds(delta) = 1000 * d

(* C10 amended: the average is d expressed in the unit and rounded to three *)
(* decimals: a thousandth nearest to d / unit.                              *)
C10_AverageIsDRounded ==
    aggDone
        => \A typ \in Types : \A d \in Spacings(typ) :
              EvenlySpaced(typ, d)
                 => LET err == aggOut.dict[typ] * UnitSeconds(delta) - 1000 * d
                    IN  2 * err <= UnitSeconds(delta) /\ 2 * err >= -UnitSeconds(delta)

\* three events of one type 60 s apart with an event of the other type in
\* between, in minutes: 1.0
C10_Witness ==
    /\ aggDone /\ delta = "minute"
    /\ \E typ \in Types :
          /\ EvenlySpaced(typ, 60)
          /\ Cardinality(OfType(typ)) = 3
          /\ aggOut.dict[typ] = 1000
          /\ \E k \in 2..(Len(aggIn) - 1) : aggIn[k].type # typ

(* C11: a statistics query running beside an update cycle never reads the  *)
(* table while the cycle is under way: it never finds the table dropped    *)
(* and never reads between a cycle's DROP and the end of that cycle.       *)
C11_QueryNeverSeesCycleInProgress ==
    seen.read => (seen.exists /\ ~seen.during)

(* C12: two update cycles never interleave: no request is between its DROP *)
(* and its return while another one is, and the table never holds more     *)
(* than Capacity rows.                                                     *)
C12_CyclesNeverInterleave ==
    /\ \A p, q \in Procs : (InCycle(p) /\ InCycle(q)) => p = q
    /\ Size(table) <= Capacity

(* C13: every update cycle starts by emptying the table, so that no row of  *)
(* an earlier cycle outlives the arrival of the next /update request.       *)
UpdateArrives ==
    /\ pc = "idle"
    /\ \/ pc' = "create"
       \/ response'.handler = "update" /\ response' # response

C13_CycleStartsEmpty ==
    [][UpdateArrives => (table' = EmptyBag)]_vars

(* C14: a configuration of more than five repositories ends the process    *)
(* before it serves a request; wherever a request is served the list has   *)
(* at most five entries, and the list never changes.                       *)
C14_AtMostFiveRepositories ==
    [][/\ repositories' = repositories
       /\ phase # "exited"
       /\ (Len(repositories') > MaxRepositories) => phase' # "serving"
       /\ (pc' # "idle" \/ response' # NoResponse)
             => (phase' = "serving" /\ Len(repositories') <= MaxRepositories)]_vars

\* the process has exited on a list of six, no request served
C14_Witness ==
    /\ phase = "exited"
    /\ Len(repositories) > MaxRepositories
    /\ pc = "idle" /\ response = NoResponse /\ ~tableExists

(* C15: the repositories are taken in the configured order, one after the   *)
(* other, and after a failed fetch nothing more is fetched, inserted or     *)
(* evicted in that cycle.                                                   *)
C15_FailFastInOrder ==
    [][/\ i' # i => \/ pc = "create" /\ i' = 1
                    \/ pc = "events" /\ pc' = "fetch" /\ i' = i + 1
       /\ (pc = "fetch" /\ pc' = "events") => (i' = i /\ i <= Len(repositories))
       /\ (pc = "events" /\ table' # table)
             => \A r \in RowsOf(table') \ RowsOf(table) :
                   r.owner = repositories[i].owner /\ r.repo = repositories[i].repo
       /\ (CycleOver /\ ~response.ok)
             => \/ table' = table /\ i' = i /\ pc' = "idle"
                \/ pc' = "create"]_vars

\* the fetch of the first of two repositories failed: the second one was
\* never reached
C15_Witness ==
    /\ CycleOver /\ ~response.ok /\ ~txFailed
    /\ i = 1 /\ Len(repositories) = 2
    /\ table = EmptyBag

(* C16: a statistics query changes nothing in the table; between two        *)
(* cycles neither a query nor the passing of time removes a row, and a      *)
(* query repeated after the rows have aged answers as before.               *)
C16_QueriesReadOnly ==
    [][(pc = "idle" /\ pc' = "idle")
         => /\ table' = table /\ tableExists' = tableExists
            /\ (response.handler = "statistics" /\ response.ok
                  /\ response'.handler = "statistics")
                 => response' = response]_vars

\* statistics answered over a row that is now eight days old or more
C16_Witness ==
    /\ response.handler = "statistics" /\ response.ok
    /\ \E r \in RowsOf(table) :
          /\ TooOld(now, r.event_timestamp)
          /\ r.repo \in DOMAIN response.body
          /\ r.type \in DOMAIN response.body[r.repo]

C18_CountIsSize ==
    (pc \in {"fetch", "events"} \/ CycleOver)
        => (tableExists /\ current_count = Size(table))

\* a row was evicted from a table in which two rows shared the timestamp
C18_Witness ==
    /\ pc = "events" /\ deleteLimit
    /\ current_count = Capacity
    /\ BagCardinality(fetchedFresh) > Capacity
    /\ \E ts \in BagToSet(fetchedFresh) :
          /\ CopiesIn(ts, fetchedFresh) >= 2
          /\ \A other \in BagToSet(fetchedFresh) : ts <= other

(* C19: no average the statistics report is negative, whatever the order    *)
(* in which the rows were inserted.                                         *)
C19_AveragesNonNegative ==
    (response.handler = "statistics" /\ response.ok)
        => \A name \in DOMAIN response.body :
              \A typ \in DOMAIN response.body[name] :
                 response.body[name][typ] >= 0

\* a positive average over rows that were inserted newest first
C19_Witness ==
    /\ response.handler = "statistics" /\ response.ok
    /\ newestFirst
    /\ \E name \in DOMAIN response.body :
          \E typ \in DOMAIN response.body[name] : response.body[name][typ] > 0

====
